---- MODULE Spec2Model ----
(***************************************************************************)
(* Model of cortex/mapper.py: the Mapper class (cache lookup, build, save, *)
(* forward and backward application, masks) and the operator builders      *)
(* Nearest, Trilinear, Lanczos, Gaussian and GaussianThickness.            *)
(*                                                                         *)
(* Conventions.  Vertex ids, voxel ids and column ids are 0-based as in    *)
(* the source; TLA+ sequences are 1-based, so vertex v is pts[v + 1].      *)
(* A continuous voxel coordinate is held in half-voxel units: the integer  *)
(* h stands for the coordinate h / 2.  A weight is a record [n, d, e]      *)
(* standing for (n / d) * eps^e, where eps is the magnitude of sin(pi) in  *)
(* binary floating point (about 1.2e-16); d = 0 marks a non-finite value   *)
(* (NaN or infinity).                                                      *)
(***************************************************************************)
EXTENDS Integers, Sequences, FiniteSets, TLC

VARIABLES bld, app, store, clock, xfmMtime, epiShape, proc, ctor

vars == <<bld, app, store, clock, xfmMtime, epiShape, proc, ctor>>

(***************************************************************************)
(* Bounds.                                                                 *)
(***************************************************************************)
\* grid dimensions range over 1 .. MaxDim on each axis
MaxDim == 2
\* a hemisphere operator handed to the application methods has 1 .. MaxRows rows
MaxRows == 2
\* the dimensions of data passed to __call__ range over 1 .. MaxData
MaxData == 4
\* the elements of vertex arrays passed to backwards range over 0 .. MaxIdx
MaxIdx == 3
\* vertex arrays passed to backwards have 0 .. MaxLen elements
MaxLen == 2
\* file modification times range over 0 .. MaxClock
MaxClock == 1

(***************************************************************************)
(* Integer and sequence helpers.                                           *)
(***************************************************************************)
Abs(x) == IF x < 0 THEN -x ELSE x

RECURSIVE SortedSeq(_)
SortedSeq(S) ==
    IF S = {} THEN <<>>
    ELSE LET m == CHOOSE x \in S : \A y \in S : x <= y
         IN  <<m>> \o SortedSeq(S \ {m})

RECURSIVE SumSeq(_)
SumSeq(s) == IF s = <<>> THEN 0 ELSE Head(s) + SumSeq(Tail(s))

RECURSIVE Concat(_)
Concat(ss) == IF ss = <<>> THEN <<>> ELSE Head(ss) \o Concat(Tail(ss))

\* np.prod(self.shape)
ProdShape(shape) == shape[1] * shape[2] * shape[3]

(***************************************************************************)
(* Weights.                                                                *)
(***************************************************************************)
W(n, d, e) == [n |-> n, d |-> d, e |-> e]
NaN == W(0, 0, 0)
IsFinite(w) == w.d # 0
\* sum of two weights of one row; a non-finite operand makes the sum non-finite
AddW(a, b) ==
    IF ~IsFinite(a) \/ ~IsFinite(b) THEN NaN
    ELSE IF a.n = 0 THEN b
    ELSE IF b.n = 0 THEN a
    ELSE IF a.e = b.e THEN W(a.n + b.n, a.d, a.e)
    ELSE IF a.e < b.e THEN a ELSE b

RECURSIVE SumW(_)
SumW(ws) == IF Len(ws) = 1 THEN ws[1] ELSE AddW(Head(ws), SumW(Tail(ws)))

(***************************************************************************)
(* Sparse matrices in compressed-row form (scipy.sparse.csr_matrix).       *)
(***************************************************************************)
\* the sequence of row r's column ids
RowIndices(m, r) == SubSeq(m.indices, m.indptr[r + 1] + 1, m.indptr[r + 2])
\* the sequence of row r's stored values
RowData(m, r) == SubSeq(m.data, m.indptr[r + 1] + 1, m.indptr[r + 2])

RECURSIVE CsrPtr(_, _)
CsrPtr(lens, acc) ==
    IF lens = <<>> THEN <<acc>>
    ELSE <<acc>> \o CsrPtr(Tail(lens), acc + Head(lens))

\* csr_matrix((data, (i, j)), shape): coordinate triples [i, j, v] to
\* compressed rows, column ids ascending in each row, duplicates summed
CooToCsr(coo, shape) ==
    LET cols(r) == SortedSeq({coo[k].j : k \in {k \in DOMAIN coo : coo[k].i = r}})
        cell(r, c) == LET sel == SelectSeq(coo, LAMBDA t : t.i = r /\ t.j = c)
                      IN  SumW([k \in 1..Len(sel) |-> sel[k].v])
        rowIdx == [r \in 1..shape[1] |-> cols(r - 1)]
        rowDat == [r \in 1..shape[1] |->
                     [k \in 1..Len(rowIdx[r]) |-> cell(r - 1, rowIdx[r][k])]]
    IN  [data    |-> Concat(rowDat),
         indices |-> Concat(rowIdx),
         indptr  |-> CsrPtr([r \in 1..shape[1] |-> Len(rowIdx[r])], 0),
         shape   |-> shape]

\* the all-zero matrix of a shape
ZeroCsr(shape) == CooToCsr(<<>>, shape)

(***************************************************************************)
(* Index arithmetic shared by the builders.                                *)
(***************************************************************************)
\* one coordinate of np.ravel_multi_index(..., mode='clip')
Clip(i, n) == IF i < 0 THEN 0 ELSE IF i > n - 1 THEN n - 1 ELSE i

\* np.ravel_multi_index((z, y, x), self.shape, mode='clip'), shape = (nZ, nY, nX)
RavelClip(z, y, x, shape) ==
    (Clip(z, shape[1]) * shape[2] + Clip(y, shape[2])) * shape[3] + Clip(x, shape[3])

\* np.unique(polys): the vertex ids the flat triangulation references
Unique(polys) == {polys[t][c] : t \in DOMAIN polys, c \in 1..3}

\* ndarray.round() of the coordinate h / 2: halves round to the even neighbour
Round(h) ==
    IF h % 2 = 0 THEN h \div 2
    ELSE LET lo == (h - 1) \div 2 IN IF lo % 2 = 0 THEN lo ELSE lo + 1

(***************************************************************************)
(* Nearest._recache, one hemisphere.                                       *)
(***************************************************************************)
\* NearestValid without the depth-axis test d3: an off-grid z is then clipped
\* onto a boundary voxel by the ravel
NearestValidNoDepth(shape, pts, polys, v) ==
    LET c == [a \in 1..3 |-> Round(pts[v + 1][a])]
    IN  /\ v \in Unique(polys)
        /\ 0 <= c[1] /\ c[1] < shape[3]
        /\ 0 <= c[2] /\ c[2] < shape[2]

NearestValid(shape, pts, polys, v) ==
    LET c == [a \in 1..3 |-> Round(pts[v + 1][a])]
    IN  /\ v \in Unique(polys)
        /\ 0 <= c[1] /\ c[1] < shape[3]
        /\ 0 <= c[2] /\ c[2] < shape[2]
        /\ 0 <= c[3] /\ c[3] < shape[1]

NearestRavel(shape, pts, v) ==
    LET c == [a \in 1..3 |-> Round(pts[v + 1][a])]
    IN  RavelClip(c[3], c[2], c[1], shape)

NearestHemi(shape, pts, polys) ==
    LET rows == SortedSeq({v \in 0..(Len(pts) - 1) : NearestValid(shape, pts, polys, v)})
        coo  == [k \in 1..Len(rows) |->
                   [i |-> rows[k], j |-> NearestRavel(shape, pts, rows[k]), v |-> W(1, 1, 0)]]
    IN  [err |-> "none", m |-> CooToCsr(coo, <<Len(pts), ProdShape(shape)>>)]

(***************************************************************************)
(* Trilinear._recache, one hemisphere.  Weights are eighths: n / 8.        *)
(***************************************************************************)
\* np.modf: the integral part, truncated toward zero
ModfInt(h) == IF h >= 0 THEN h \div 2 ELSE -((-h) \div 2)
\* np.modf: the fractional part in halves, then x[x < 0] = 0
ModfFrac(h) == LET f == h - 2 * ModfInt(h) IN IF f < 0 THEN 0 ELSE f

\* the eight corners in the order of the source's j and data stacks, as
\* (cx, cy, cz) with 1 = ceil: 000 100 010 001 101 011 110 111
Corners ==
    << <<0,0,0>>, <<1,0,0>>, <<0,1,0>>, <<0,0,1>>,
       <<1,0,1>>, <<0,1,1>>, <<1,1,0>>, <<1,1,1>> >>

TrilinearIndex(shape, p, c) ==
    RavelClip(ModfInt(p[3]) + c[3], ModfInt(p[2]) + c[2], ModfInt(p[1]) + c[1], shape)

TrilinearWeight(p, c) ==
    LET f(a) == IF c[a] = 1 THEN ModfFrac(p[a]) ELSE 2 - ModfFrac(p[a])
    IN  W(f(1) * f(2) * f(3), 8, 0)

TrilinearHemi(shape, pts, polys) ==
    LET valid == SortedSeq(Unique(polys))
        coo == [k \in 1..(8 * Len(valid)) |->
                  LET v == valid[((k - 1) \div 8) + 1]
                      c == Corners[((k - 1) % 8) + 1]
                  IN  [i |-> v, j |-> TrilinearIndex(shape, pts[v + 1], c),
                       v |-> TrilinearWeight(pts[v + 1], c)]]
    IN  [err |-> "none", m |-> CooToCsr(coo, <<Len(pts), ProdShape(shape)>>)]

(***************************************************************************)
(* Lanczos._recache, one hemisphere.  A 1-D kernel value is a weight over  *)
(* 100, a 3-D tap a weight over 100^3.                                     *)
(***************************************************************************)
\* the default of the window keyword
DefaultWindow == 3

\* 1000 * sin(j * pi / 12)
Sin12(j) ==
    LET t == <<0, 259, 500, 707, 866, 966, 1000>>
        r == j % 24
        q == IF r >= 12 THEN r - 12 ELSE r
        a == IF q <= 6 THEN t[q + 1] ELSE t[12 - q + 1]
    IN  IF r >= 12 THEN -a ELSE a

\* np.sin(np.pi * x) at x = k / 2 as mantissa and eps-order: exactly +-1 at
\* the odd halves; at a nonzero integer n the float product n * pi is off
\* pi's rounding error, so the sine is n * eps in magnitude, never 0
SinPiM(k) ==
    IF k % 2 # 0 THEN Sin12(6 * k) \div 1000
    ELSE LET n == Abs(k) \div 2
             m == IF n % 2 = 1 THEN n ELSE -n
         IN  IF k > 0 THEN m ELSE -m
SinPiE(k) == IF k % 2 = 0 THEN 1 ELSE 0

\* lanczos(x) at x = k / 2:
\*   out = zeros; sel = |x| < window;
\*   out[sel] = sin(pi x) * sin(pi x / window) * (window / (pi^2 x^2))
\* At x = 0 the last factor is window / 0 = inf and 0 * 0 * inf is NaN.
LanczosKernel(k, window) ==
    IF ~(Abs(k) < 2 * window) THEN W(0, 100, 0)
    ELSE IF k = 0 THEN NaN
    ELSE W((SinPiM(k) * Sin12((6 * k) \div window) * 4 * window * 1000)
               \div (98696 * k * k), 100, SinPiE(k))

\* the entries np.nonzero keeps (NaN is nonzero)
NonZero(w) == ~IsFinite(w) \/ w.n # 0

MulW(a, b) ==
    IF ~IsFinite(a) \/ ~IsFinite(b) THEN NaN
    ELSE W(a.n * b.n, a.d * b.d, a.e + b.e)

\* one element of vals / vals.sum(): the sum keeps its leading eps-order (AddW)
DivW(a, s) ==
    IF ~IsFinite(a) \/ ~IsFinite(s) \/ s.n = 0 THEN NaN
    ELSE W(a.n, s.n, a.e - s.e)

\* np.nonzero(L[:, v])[0] along one axis of n grid coordinates
LanczosTaps(h, n, window) ==
    SortedSeq({g \in 0..(n - 1) : NonZero(LanczosKernel(h - 2 * g, window))})

\* vals /= vals.sum()
Renorm(vals, s) == [k \in DOMAIN vals |-> DivW(vals[k], s)]

\* mask[v, inds] = vals, as a sequence of [j, v]
LanczosEntries(inds, vals) == [k \in DOMAIN inds |-> [j |-> inds[k], v |-> vals[k]]]

\* the row of one vertex: a sequence of [j, v], in product(iz, iy, ix) order
LanczosRow(shape, p, window, renorm) ==
    LET ix == LanczosTaps(p[1], shape[3], window)
        iy == LanczosTaps(p[2], shape[2], window)
        iz == LanczosTaps(p[3], shape[1], window)
        nt == Len(iz) * Len(iy) * Len(ix)
        tz(k) == iz[((k - 1) \div (Len(iy) * Len(ix))) + 1]
        ty(k) == iy[(((k - 1) \div Len(ix)) % Len(iy)) + 1]
        tx(k) == ix[((k - 1) % Len(ix)) + 1]
        vals == [k \in 1..nt |->
                   MulW(MulW(LanczosKernel(p[3] - 2 * tz(k), window),
                             LanczosKernel(p[2] - 2 * ty(k), window)),
                        LanczosKernel(p[1] - 2 * tx(k), window))]
    IN  LanczosEntries([k \in 1..nt |-> RavelClip(tz(k), ty(k), tx(k), shape)],
                       IF renorm THEN Renorm(vals, SumW(vals)) ELSE vals)

\* a vertex with no tap on some axis: product(...) is empty and
\* np.ravel_multi_index / np.prod(..., 1) raise on the empty array
LanczosRaises(shape, p, window) ==
    \/ LanczosTaps(p[1], shape[3], window) = <<>>
    \/ LanczosTaps(p[2], shape[2], window) = <<>>
    \/ LanczosTaps(p[3], shape[1], window) = <<>>

LanczosHemi(shape, pts, window, renorm) ==
    IF \E v \in 1..Len(pts) : LanczosRaises(shape, pts[v], window)
    THEN [err |-> "ValueError", m |-> ZeroCsr(<<Len(pts), ProdShape(shape)>>)]
    ELSE LET rows == [v \in 1..Len(pts) |->
                        LET row == LanczosRow(shape, pts[v], window, renorm)
                        IN  [k \in 1..Len(row) |->
                               [i |-> v - 1, j |-> row[k].j, v |-> row[k].v]]]
         IN  [err |-> "none",
              m |-> CooToCsr(Concat(rows), <<Len(pts), ProdShape(shape)>>)]

(***************************************************************************)
(* Building one hemisphere operator from drawn geometry.                   *)
(***************************************************************************)
\* grid shapes (nZ, nY, nX)
Shapes == (1..MaxDim) \X (1..MaxDim) \X (1..MaxDim)

\* half-unit coordinates from one voxel before the grid to one voxel after it
AxisCoords(n) == (-2)..(2 * (n - 1) + 2)

\* the window values drawn for Lanczos
Windows == {1, DefaultWindow}

\* a hemisphere of two vertices: vertex 0 anywhere, vertex 1 at (0.5, 0.5, 0.5)
HemiPts(shape) ==
    {<< <<x, y, z>>, <<1, 1, 1>> >> :
        x \in AxisCoords(shape[3]), y \in AxisCoords(shape[2]), z \in AxisCoords(shape[1])}

\* flat triangulations: none, or one (degenerate) face naming the vertices used
HemiPolys == {<<>>, << <<0, 0, 0>> >>, << <<1, 1, 1>> >>, << <<0, 1, 1>> >>}

\* the strategy, its keywords and the face list they are drawn with (Lanczos
\* never reads the face list)
BuildKinds ==
    {[cls |-> "nearest", window |-> DefaultWindow, renorm |-> TRUE, polys |-> f] :
        f \in HemiPolys}
    \cup {[cls |-> "trilinear", window |-> DefaultWindow, renorm |-> TRUE, polys |-> f] :
        f \in HemiPolys}
    \cup {[cls |-> "lanczos", window |-> w, renorm |-> r, polys |-> << <<0, 1, 1>> >>] :
        w \in Windows, r \in BOOLEAN}

Idle == [phase |-> "off"]

InitBuild ==
    /\ \E s \in Shapes : \E p \in HemiPts(s) : \E k \in BuildKinds :
          bld = [phase |-> "input", cls |-> k.cls, window |-> k.window,
                 renorm |-> k.renorm, shape |-> s, pts |-> p, polys |-> k.polys,
                 out |-> [err |-> "none", m |-> ZeroCsr(<<0, 0>>)]]
    /\ app = Idle /\ store = Idle /\ clock = 0 /\ xfmMtime = 0
    /\ epiShape = <<1, 1, 1>> /\ proc = Idle /\ ctor = Idle

BuildNearest ==
    /\ bld.phase = "input" /\ bld.cls = "nearest"
    /\ bld' = [bld EXCEPT !.phase = "built",
                          !.out = NearestHemi(bld.shape, bld.pts, bld.polys)]
    /\ UNCHANGED <<app, store, clock, xfmMtime, epiShape, proc, ctor>>

BuildTrilinear ==
    /\ bld.phase = "input" /\ bld.cls = "trilinear"
    /\ bld' = [bld EXCEPT !.phase = "built",
                          !.out = TrilinearHemi(bld.shape, bld.pts, bld.polys)]
    /\ UNCHANGED <<app, store, clock, xfmMtime, epiShape, proc, ctor>>

BuildLanczos ==
    /\ bld.phase = "input" /\ bld.cls = "lanczos"
    /\ bld' = [bld EXCEPT !.phase = "built",
                          !.out = LanczosHemi(bld.shape, bld.pts, bld.window, bld.renorm)]
    /\ UNCHANGED <<app, store, clock, xfmMtime, epiShape, proc, ctor>>

NextBuild == BuildNearest \/ BuildTrilinear \/ BuildLanczos

SpecBuild == InitBuild /\ [][NextBuild]_vars


(***************************************************************************)
(* The application methods of a constructed Mapper: mask, hemimasks,       *)
(* __call__ and backwards.  A volume is held flat, in row-major (z, y, x)  *)
(* order, next to the grid shape it is reshaped to.                        *)
(***************************************************************************)
ZeroW == W(0, 1, 0)

RECURSIVE SumW0(_)
SumW0(ws) == IF ws = <<>> THEN ZeroW ELSE AddW(Head(ws), SumW0(Tail(ws)))

\* m.sum(0)[c]: the sum of the stored entries of column c
ColSum(m, c) ==
    SumW0([k \in 1..Len(SelectSeq([i \in DOMAIN m.indices |-> i], LAMBDA i : m.indices[i] = c)) |->
             m.data[SelectSeq([i \in DOMAIN m.indices |-> i], LAMBDA i : m.indices[i] = c)[k]]])

\* Mapper.mask: (masks[0].sum(0) + masks[1].sum(0)) != 0, one flag per voxel
Mask(mp) ==
    [c \in 1..ProdShape(mp.shape) |->
        NonZero(AddW(ColSum(mp.masks[1], c - 1), ColSum(mp.masks[2], c - 1)))]

\* self.mask.sum()
MaskSum(mp) == Cardinality({c \in DOMAIN Mask(mp) : Mask(mp)[c]})

\* Mapper.hemimasks: `.squeeze` is not called, so `<bound method> != 0` is the
\* bool True and True.reshape raises AttributeError for every matrix (map is
\* eager)
Hemimasks(mp) == [err |-> "AttributeError", val |-> <<>>]

\* a[..., idx] on a trailing axis holding the sequence a
CanTake(a, idx) == \A k \in DOMAIN idx : idx[k] < Len(a)
Take(a, idx) == [k \in DOMAIN idx |-> a[idx[k] + 1]]

Trailing(shape) == shape[Len(shape)]

\* numpy broadcasting of an array of shape src into a slot of shape dst
Broadcastable(src, dst) ==
    /\ \A k \in 1..(Len(src) - Len(dst)) : src[k] = 1
    /\ \A k \in 1..Len(dst) :
          (Len(src) - Len(dst) + k >= 1) =>
              src[Len(src) - Len(dst) + k] \in {1, dst[k]}

Reverse(q) == [k \in 1..Len(q) |-> q[Len(q) + 1 - k]]
Squeeze(q) == SelectSeq(q, LAMBDA d : d # 1)

CallResult(path, err, left, right) ==
    [path |-> path, err |-> err, left |-> left, right |-> right]

\* Mapper.__call__, per-vertex branch.  The trailing axis of data is held as
\* the sequence of its positions 0 .. T-1; the result names the positions
\* each returned slice holds.
CallSplit(mp, shape) ==
    LET llen  == mp.masks[1].shape[1]
        T     == Trailing(shape)
        left  == [k \in 1..(IF llen < T THEN llen ELSE T) |-> k - 1]
        right == [k \in 1..(IF llen < T THEN T - llen ELSE 0) |-> llen + k - 1]
    IN  IF mp.idxmap # <<>>
        THEN IF CanTake(left, mp.idxmap[1]) /\ CanTake(right, mp.idxmap[1])
             THEN CallResult("split", "none", Take(left, mp.idxmap[1]),
                             Take(right, mp.idxmap[1]))
             ELSE CallResult("split", "IndexError", <<>>, <<>>)
        ELSE CallResult("split", "none", left, right)

\* Mapper.__call__, volumetric branch.  The result names the shape of each
\* hemisphere's product (the products' values are not tracked).
CallVolume(mp, shape0) ==
    LET shape == IF Len(shape0) \in {1, 3} THEN <<1>> \o shape0 ELSE shape0
        nvox  == ProdShape(mp.shape)
        byMask == \E d \in DOMAIN shape : shape[d] = MaskSum(mp)
        path  == IF byMask THEN "scatter" ELSE "reshape"
        \* the shape of norm, or <<>> when building it raises
        norm  == IF byMask
                 THEN IF Broadcastable(Reverse(shape), <<MaskSum(mp), shape[1]>>)
                      THEN <<nvox, shape[1]>> ELSE <<>>
                 ELSE IF Len(shape) = 4
                      THEN <<shape[2] * shape[3] * shape[4], shape[1]>> ELSE <<>>
        out(h) == Squeeze(<<norm[2], mp.masks[h].shape[1]>>)
        takes(h) == out(h) # <<>> /\ \A k \in DOMAIN mp.idxmap[h] :
                                        mp.idxmap[h][k] < Trailing(out(h))
        mapped(h) == IF mp.idxmap = <<>> THEN out(h)
                     ELSE SubSeq(out(h), 1, Len(out(h)) - 1) \o <<Len(mp.idxmap[h])>>
    IN  IF norm = <<>> \/ norm[1] # nvox
        THEN CallResult(path, "ValueError", <<>>, <<>>)
        ELSE IF mp.idxmap # <<>> /\ ~(takes(1) /\ takes(2))
        THEN CallResult(path, "IndexError", <<>>, <<>>)
        ELSE CallResult(path, "none", mapped(1), mapped(2))

\* Mapper.__call__
Call(mp, shape) ==
    IF \E d \in DOMAIN shape : shape[d] = mp.nverts
    THEN CallSplit(mp, shape)
    ELSE CallVolume(mp, shape)

RECURSIVE MaxSeq(_)
MaxSeq(q) ==
    IF Len(q) = 1 THEN q[1]
    ELSE IF Head(q) > MaxSeq(Tail(q)) THEN Head(q) ELSE MaxSeq(Tail(q))

\* z = np.zeros((n,), dtype=bool); z[idx] = True  (flags held as 0 / 1)
Flags(n, idx) ==
    [k \in 1..n |-> IF \E i \in DOMAIN idx : idx[i] = k - 1 THEN 1 ELSE 0]

\* np.array(data * mask).reshape(self.shape): the row vector times the matrix
Project(m, data) ==
    [c \in 1..m.shape[2] |->
        SumW0([k \in DOMAIN m.indices |->
                 IF m.indices[k] = c - 1
                 THEN LET r == CHOOSE r \in 1..m.shape[1] :
                                  m.indptr[r] < k /\ k <= m.indptr[r + 1]
                      IN  W(data[r] * m.data[k].n, m.data[k].d, m.data[k].e)
                 ELSE ZeroW])]

BackResult(err, vols) == [err |-> err, vols |-> vols]

\* the output loop of Mapper.backwards
BackProject(mp, left, right) ==
    IF \/ Len(left) # mp.masks[1].shape[1] \/ Len(right) # mp.masks[2].shape[1]
       \/ mp.masks[1].shape[2] # ProdShape(mp.shape)
       \/ mp.masks[2].shape[2] # ProdShape(mp.shape)
    THEN BackResult("ValueError", <<>>)
    ELSE BackResult("none", <<Project(mp.masks[1], left), Project(mp.masks[2], right)>>)

\* Mapper.backwards, verts a list or tuple of two arrays
BackwardsPair(mp, a, b) ==
    LET llen == mp.masks[1].shape[1]
        rlen == mp.masks[2].shape[1]
    IN  IF Len(a) = llen THEN BackProject(mp, a, b)
        ELSE IF a = <<>> THEN BackResult("ValueError", <<>>)
        ELSE IF MaxSeq(a) < llen
        THEN IF \A k \in DOMAIN b : b[k] < rlen
             THEN BackProject(mp, Flags(llen, a), Flags(rlen, b))
             ELSE BackResult("IndexError", <<>>)
        ELSE BackResult("ValueError", <<>>)

\* Mapper.backwards, verts one array
BackwardsFlat(mp, a) ==
    LET llen == mp.masks[1].shape[1]
        rlen == mp.masks[2].shape[1]
    IN  IF Len(a) = mp.nverts
        THEN BackProject(mp, SubSeq(a, 1, llen), SubSeq(a, llen + 1, Len(a)))
        ELSE IF a = <<>> THEN BackResult("ValueError", <<>>)
        ELSE IF MaxSeq(a) < mp.nverts
        THEN BackProject(mp,
                 Flags(llen, SelectSeq(a, LAMBDA x : x < llen)),
                 Flags(rlen, LET hi == SelectSeq(a, LAMBDA x : x >= llen)
                             IN  [k \in DOMAIN hi |-> hi[k] - llen]))
        ELSE BackResult("ValueError", <<>>)

Backwards(mp, verts) ==
    IF verts.form = "pair" THEN BackwardsPair(mp, verts.a, verts.b)
    ELSE BackwardsFlat(mp, verts.a)

(***************************************************************************)
(* Applying a constructed Mapper.                                          *)
(***************************************************************************)
\* the grid of the Mappers the methods are applied on: two voxels
AppShape == <<1, 1, 2>>

\* a row is empty or holds one entry [j, v]
AppRows ==
    {<<>>} \cup {<<[j |-> c, v |-> W(1, 1, 0)]>> : c \in 0..(ProdShape(AppShape) - 1)}
           \cup {<<[j |-> 0, v |-> W(-1, 1, 0)]>>}

\* hemisphere operators of 1 .. MaxRows such rows
AppOps ==
    UNION {{CooToCsr(Concat([r \in 1..n |->
                               [k \in DOMAIN rows[r] |->
                                  [i |-> r - 1, j |-> rows[r][k].j, v |-> rows[r][k].v]]]),
                     <<n, ProdShape(AppShape)>>) :
               rows \in [1..n -> AppRows]} : n \in 1..MaxRows}

Perms(n) == {q \in [1..n -> 0..(n - 1)] : \A i, j \in 1..n : q[i] = q[j] => i = j}

SeqsUpTo(S, n) == UNION {[1..k -> S] : k \in 0..n}

\* shapes of the data handed to __call__: 1-D, 2-D, the grid itself (3-D) and
\* a time series of grids (4-D)
DataShapes ==
    {<<n>> : n \in 1..MaxData}
    \cup {<<t, n>> : t \in 1..MaxData, n \in 1..MaxData}
    \cup {AppShape}
    \cup {<<t>> \o AppShape : t \in 1..MaxData}

\* vertex arrays handed to backwards
VertArrays ==
    {[form |-> "flat", a |-> a, b |-> <<>>] : a \in SeqsUpTo(0..MaxIdx, MaxLen)}
    \cup {[form |-> "pair", a |-> a, b |-> b] :
            a \in SeqsUpTo(0..MaxIdx, MaxLen), b \in SeqsUpTo(0..MaxIdx, MaxLen)}

NoResult == [err |-> "none"]

InitApply ==
    /\ \E l \in AppOps : \E r \in AppOps :
          app = [phase |-> "ready", masks |-> <<l, r>>,
                 nverts |-> l.shape[1] + r.shape[1], shape |-> AppShape,
                 idxmap |-> <<>>, op |-> "none", arg |-> <<>>, res |-> NoResult]
    /\ bld = Idle /\ store = Idle /\ clock = 0 /\ xfmMtime = 0
    /\ epiShape = <<1, 1, 1>> /\ proc = Idle /\ ctor = Idle

Rest == <<bld, store, clock, xfmMtime, epiShape, proc, ctor>>

\* the caller sets mapper.idxmap to a pair of per-hemisphere permutations
SetIdxmap ==
    /\ app.phase = "ready" /\ app.idxmap = <<>>
    /\ \E pl \in Perms(app.masks[1].shape[1]) : \E pr \in Perms(app.masks[2].shape[1]) :
          app' = [app EXCEPT !.idxmap = <<pl, pr>>]
    /\ UNCHANGED Rest

GetMask ==
    /\ app.phase = "ready"
    /\ app' = [app EXCEPT !.phase = "done", !.op = "mask",
                          !.res = [err |-> "none", val |-> Mask(app)]]
    /\ UNCHANGED Rest

GetHemimasks ==
    /\ app.phase = "ready"
    /\ app' = [app EXCEPT !.phase = "done", !.op = "hemimasks", !.res = Hemimasks(app)]
    /\ UNCHANGED Rest

DoCall ==
    /\ app.phase = "ready"
    /\ \E d \in DataShapes :
          app' = [app EXCEPT !.phase = "done", !.op = "call", !.arg = d,
                             !.res = Call(app, d)]
    /\ UNCHANGED Rest

DoBackwards ==
    /\ app.phase = "ready"
    /\ \E v \in VertArrays :
          app' = [app EXCEPT !.phase = "done", !.op = "backwards", !.arg = v,
                             !.res = Backwards(app, v)]
    /\ UNCHANGED Rest

NextApply == SetIdxmap \/ GetMask \/ GetHemimasks \/ DoCall \/ DoBackwards

SpecApply == InitApply /\ [][NextApply]_vars

(***************************************************************************)
(* The cache store and the constructor.                                    *)
(*                                                                         *)
(* A cache file is [state, mtime, npz, writer, raced, src]:                *)
(*   state  "missing"; "empty" (opened for writing, nothing written);      *)
(*          "partial" (archive members without the central directory);     *)
(*          "complete" (a readable .npz archive)                           *)
(*   npz    the eight named arrays of a complete archive                   *)
(*   writer the process that opened the file for writing last (0: none)    *)
(*   raced  a process other than the last opener wrote into the file       *)
(*   src    history: the masks of the Mapper whose save completed the file *)
(*          and the transform's mtime at that moment (saved = FALSE for a  *)
(*          file that was in the store from the start)                     *)
(***************************************************************************)
\* the Mapper instances under construction, each by its own thread or
\* process; __init__ runs once per instance
Procs == {1, 2}

\* the grids the transform's functional volume can have
EpiShapes == {<<1, 1, 1>>, <<1, 1, 2>>}

\* the subject's surfaces, per hemisphere, in voxel coordinates: fiducial
\* points and the faces of the flat triangulation
SubjectPts == << << <<0, 0, 0>>, <<2, 0, 0>> >>, << <<1, 1, 1>> >> >>
SubjectPolys == << << <<0, 1, 1>> >>, << <<0, 0, 0>> >> >>

\* the constructions requested: class name and keyword items
Requests ==
    {[cls |-> "nearest", items |-> <<>>], [cls |-> "gaussian", items |-> <<>>]}

\* str.lower() on the names of the Mapper classes (names already in lower
\* case are left as they are)
Lower(name) ==
    CASE name = "Nearest" -> "nearest"
      [] name = "Trilinear" -> "trilinear"
      [] name = "Lanczos" -> "lanczos"
      [] name = "Gaussian" -> "gaussian"
      [] name = "GaussianThickness" -> "gaussianthickness"
      [] name = "Polyhedral" -> "polyhedral"
      [] OTHER -> name

\* a keyword value: an int n, a str s, a bool (n = 1 for True, 0 for False)
\* or a float whose '%.12g' rendering is s and whose digits beyond the
\* twelfth significant one are n
IntV(n) == [t |-> "int", n |-> n, s |-> ""]
StrV(s) == [t |-> "str", n |-> 0, s |-> s]
BoolV(b) == [t |-> "bool", n |-> IF b THEN 1 ELSE 0, s |-> ""]
FloatV(s, n) == [t |-> "float", n |-> n, s |-> s]

\* str(v): decimal digits of an int, the characters of a str, True / False,
\* and for a float twelve significant digits (float_str_prec), the rest
\* being dropped
Str(v) ==
    CASE v.t = "int" -> ToString(v.n)
      [] v.t = "str" -> v.s
      [] v.t = "bool" -> (IF v.n = 1 THEN "True" ELSE "False")
      [] v.t = "float" -> v.s

\* '_'.join(parts)
RECURSIVE Join(_, _)
Join(sep, parts) ==
    IF parts = <<>> THEN ""
    ELSE IF Len(parts) = 1 THEN parts[1]
    ELSE parts[1] \o sep \o Join(sep, Tail(parts))

\* kwds: '%s%s' % (k, str(v)) for each item, in kwargs.items() order
Kwds(items) == Join("_", [i \in DOMAIN items |-> items[i].k \o Str(items[i].v)])

\* ptype: the lower-cased class name, then '_' and kwds when kwds is not
\* empty
PType(cls, items) ==
    IF Kwds(items) # "" THEN Lower(cls) \o "_" \o Kwds(items) ELSE Lower(cls)

CacheKeys == {PType(r.cls, r.items) : r \in Requests}

\* the keyword value of name k, or the default d
Kw(items, k, d) ==
    IF \E i \in DOMAIN items : items[i][1] = k
    THEN items[CHOOSE i \in DOMAIN items : items[i][1] = k][2]
    ELSE d

\* one hemisphere of the strategy's _recache loop
StrategyHemi(cls, items, shape, h) ==
    CASE cls = "nearest"   -> NearestHemi(shape, SubjectPts[h], SubjectPolys[h])
      [] cls = "trilinear" -> TrilinearHemi(shape, SubjectPts[h], SubjectPolys[h])
      [] cls = "lanczos"   -> LanczosHemi(shape, SubjectPts[h],
                                          Kw(items, "window", DefaultWindow),
                                          Kw(items, "renorm", TRUE))
      [] OTHER             -> [err |-> "NotImplementedError", m |-> ZeroCsr(<<0, 0>>)]

\* masks[0], masks[1] as handed to Mapper._recache, or the exception raised
BuildOutcome(l, r) ==
    IF l.err # "none" THEN [err |-> l.err, masks |-> <<>>]
    ELSE IF r.err # "none" THEN [err |-> r.err, masks |-> <<>>]
    ELSE [err |-> "none", masks |-> <<l.m, r.m>>]

\* the strategy's _recache up to its call of Mapper._recache: the two
\* hemisphere operators, or the exception it raises
StrategyBuild(cls, items, shape) ==
    BuildOutcome(StrategyHemi(cls, items, shape, 1), StrategyHemi(cls, items, shape, 2))

\* the keyword arguments of np.savez in Mapper._recache
SaveArrays(left, right) ==
    [left_data |-> left.data, left_indices |-> left.indices,
     left_indptr |-> left.indptr, left_shape |-> left.shape,
     right_data |-> right.data, right_indices |-> right.indices,
     right_indptr |-> right.indptr, right_shape |-> right.shape]

\* Mapper.__init__: the two csr_matrix((data, indices, indptr), shape=...)
LoadMasks(npz) ==
    << [data |-> npz.left_data, indices |-> npz.left_indices,
        indptr |-> npz.left_indptr, shape |-> npz.left_shape],
       [data |-> npz.right_data, indices |-> npz.right_indices,
        indptr |-> npz.right_indptr, shape |-> npz.right_shape] >>

NoMasks == <<ZeroCsr(<<0, 0>>), ZeroCsr(<<0, 0>>)>>
NoSrc == [saved |-> FALSE, masks |-> NoMasks, nverts |-> 0, xfm |-> 0]

File(state, mtime, npz, writer, raced, src) ==
    [state |-> state, mtime |-> mtime, npz |-> npz, writer |-> writer,
     raced |-> raced, src |-> src]

MissingFile == File("missing", 0, SaveArrays(NoMasks[1], NoMasks[2]), 0, FALSE, NoSrc)

\* a complete archive that is in the store before any construction
StoredFile(shape) ==
    LET b == StrategyBuild("nearest", <<>>, shape)
    IN  File("complete", 0, SaveArrays(b.masks[1], b.masks[2]), 0, FALSE, NoSrc)

\* np.load(self.cachefile): the exception it raises on the file, or "none".
\* A missing file cannot be opened (IOError); an empty file is no zip, no
\* .npy and no pickle (IOError); members without a central directory make
\* zipfile raise BadZipfile, which is no IOError.
NpLoad(f) ==
    CASE f.state = "missing" -> "IOError"
      [] f.state = "empty"   -> "IOError"
      [] f.state = "partial" -> "BadZipfile"
      [] OTHER               -> "none"

NoProc ==
    [pc |-> "idle", cls |-> "none", items |-> <<>>, recache |-> FALSE,
     shape |-> <<0, 0, 0>>, masks |-> NoMasks, nverts |-> 0,
     built |-> FALSE, loaded |-> FALSE, err |-> "none",
     seen |-> [state |-> "none", stale |-> FALSE, cols |-> <<0, 0>>,
               src |-> NoSrc, xfm |-> 0]]

InitCache ==
    /\ store \in [CacheKeys -> {MissingFile} \cup {StoredFile(s) : s \in EpiShapes}]
    /\ clock = 0 /\ xfmMtime = 0
    /\ epiShape \in EpiShapes
    /\ proc = [p \in Procs |-> NoProc]
    /\ bld = Idle /\ app = Idle /\ ctor = Idle

\* the instance after the try block of Mapper.__init__ and, on IOError, the
\* strategy's _recache (which sets nverts and masks), given the cache file f
\* and the outcome b that the build has
Constructed(r, recache, f, stale, fail, b) ==
    LET me == [NoProc EXCEPT !.cls = r.cls, !.items = r.items,
                             !.recache = recache, !.shape = epiShape,
                             !.seen = [state |-> f.state, stale |-> stale,
                                       cols |-> <<f.npz.left_shape[2],
                                                  f.npz.right_shape[2]>>,
                                       src |-> f.src, xfm |-> xfmMtime]]
    IN  IF fail = "IOError" \/ (fail = "none" /\ (recache \/ stale))
        THEN IF b.err # "none"
             THEN [me EXCEPT !.pc = "failed", !.built = TRUE, !.err = b.err]
             ELSE [me EXCEPT !.pc = "save", !.built = TRUE, !.masks = b.masks,
                             !.nverts = b.masks[1].shape[1] + b.masks[2].shape[1]]
        ELSE IF fail # "none"
             THEN [me EXCEPT !.pc = "failed", !.err = fail]
             ELSE [me EXCEPT !.pc = "done", !.loaded = TRUE,
                             !.masks = LoadMasks(f.npz),
                             !.nverts = f.npz.left_shape[1] + f.npz.right_shape[1]]

\* Stale with <= for <: a cache written in the same tick as the transform
\* counts as stale
StaleOrEqual(f) == f.state # "missing" /\ f.mtime <= xfmMtime

\* os.stat(self.cachefile).st_mtime < os.stat(xfmfile).st_mtime
Stale(f) == f.state # "missing" /\ f.mtime < xfmMtime

\* Mapper.__init__ up to the np.savez call of Mapper._recache: resolve the
\* cache file and the grid, try the cache, on IOError rebuild
Construct(p, r, recache) ==
    /\ proc[p].pc = "idle"
    /\ proc' = [proc EXCEPT ![p] =
                  Constructed(r, recache, store[PType(r.cls, r.items)],
                              Stale(store[PType(r.cls, r.items)]),
                              NpLoad(store[PType(r.cls, r.items)]),
                              StrategyBuild(r.cls, r.items, epiShape))]
    /\ UNCHANGED <<store, clock, xfmMtime, epiShape, bld, app, ctor>>

KeyOf(p) == PType(proc[p].cls, proc[p].items)

\* np.savez, first step: zipfile.ZipFile(file, mode="w") opens the cache file
\* itself for writing, which truncates it
SaveOpen(p) ==
    /\ proc[p].pc = "save"
    /\ store' = [store EXCEPT ![KeyOf(p)] =
                    File("empty", clock, MissingFile.npz, p, FALSE, NoSrc)]
    /\ proc' = [proc EXCEPT ![p].pc = "write"]
    /\ UNCHANGED <<clock, xfmMtime, epiShape, bld, app, ctor>>

\* np.savez, second step: the arrays are written as archive members.  When
\* another process opened the file since, the bytes land in its archive.
SaveWrite(p) ==
    /\ proc[p].pc = "write"
    /\ LET f == store[KeyOf(p)]
       IN  store' = [store EXCEPT ![KeyOf(p)] =
                        File("partial", clock, MissingFile.npz, f.writer,
                             f.raced \/ f.writer # p, NoSrc)]
    /\ proc' = [proc EXCEPT ![p].pc = "close"]
    /\ UNCHANGED <<clock, xfmMtime, epiShape, bld, app, ctor>>

\* np.savez, last step: zip.close() writes the central directory.  In a file
\* that two processes wrote into, the archive may or may not be readable.
SaveClose(p) ==
    /\ proc[p].pc = "close"
    /\ LET f    == store[KeyOf(p)]
           good == File("complete", clock,
                        SaveArrays(proc[p].masks[1], proc[p].masks[2]), f.writer, FALSE,
                        [saved |-> TRUE, masks |-> proc[p].masks,
                         nverts |-> proc[p].nverts, xfm |-> xfmMtime])
           bad  == File("partial", clock, MissingFile.npz, f.writer, TRUE, NoSrc)
       IN  \/ (f.writer = p /\ ~f.raced) /\ store' = [store EXCEPT ![KeyOf(p)] = good]
           \/ (f.writer # p \/ f.raced) /\ store' = [store EXCEPT ![KeyOf(p)] = good]
           \/ (f.writer # p \/ f.raced) /\ store' = [store EXCEPT ![KeyOf(p)] = bad]
    /\ proc' = [proc EXCEPT ![p].pc = "done"]
    /\ UNCHANGED <<clock, xfmMtime, epiShape, bld, app, ctor>>

\* np.savez fails (the disk is full, the process is killed) after it opened
\* the file: nothing in Mapper._recache removes or restores the file
SaveFails(p) ==
    /\ proc[p].pc \in {"write", "close"}
    /\ proc' = [proc EXCEPT ![p].pc = "failed", ![p].err = "SaveFailed"]
    /\ UNCHANGED <<store, clock, xfmMtime, epiShape, bld, app, ctor>>

\* the transform file is rewritten
TouchXfm ==
    /\ xfmMtime # clock
    /\ xfmMtime' = clock
    /\ UNCHANGED <<store, clock, epiShape, proc, bld, app, ctor>>

\* the functional volume of the transform is replaced by one of another grid
ReplaceEpi ==
    /\ \E s \in EpiShapes \ {epiShape} : epiShape' = s
    /\ UNCHANGED <<store, clock, xfmMtime, proc, bld, app, ctor>>

Tick ==
    /\ clock < MaxClock
    /\ clock' = clock + 1
    /\ UNCHANGED <<store, xfmMtime, epiShape, proc, bld, app, ctor>>

NextCache ==
    \/ \E p \in Procs : \E r \in Requests : \E c \in BOOLEAN : Construct(p, r, c)
    \/ \E p \in Procs : SaveOpen(p)
    \/ \E p \in Procs : SaveWrite(p)
    \/ \E p \in Procs : SaveClose(p)
    \/ \E p \in Procs : SaveFails(p)
    \/ TouchXfm
    \/ ReplaceEpi
    \/ Tick

Spec == InitCache /\ [][NextCache]_vars

(***************************************************************************)
(* The cache file name (Mapper.__init__, lines 17-21), for constructions   *)
(* of one subject and transform that differ in class and keyword arguments.*)
(***************************************************************************)
Classes == {"Lanczos", "Gaussian"}

KwNames == {"window", "renorm"}

\* 0.3 and 0.30000000000000004 (0.1 + 0.2) are the two floats
KwValues ==
    {IntV(3), StrV("3"), BoolV(TRUE), StrV("3_renormTrue"),
     FloatV("0.3", 0), FloatV("0.3", 4)}

KwItems == {[k |-> k, v |-> v] : k \in KwNames, v \in KwValues}

\* the keyword arguments of a call, in the order the caller wrote them; a
\* name occurs once
Calls ==
    {<<>>} \cup {<<i>> : i \in KwItems}
           \cup {c \in {<<i, j>> : i \in KwItems, j \in KwItems} : c[1].k # c[2].k}

NameOrders == {o \in KwNames \X KwNames : o[1] # o[2]}

\* kwargs is a dict: the order of kwargs.items() is the order of the
\* interpreter's hash table, a function of the names' hashes and, where
\* they collide, of the order of insertion; it is fixed for one interpreter
\* and hash seed
Layouts == [NameOrders -> NameOrders]

DictItems(call, layout) ==
    IF Len(call) < 2 THEN call
    ELSE LET o == layout[<<call[1].k, call[2].k>>]
         IN  [i \in 1..2 |-> IF call[1].k = o[i] THEN call[1] ELSE call[2]]

NoCtor == [pc |-> "idle", cls |-> "none", kwargs |-> <<>>, items |-> <<>>,
           cachefile |-> ""]

InitKey ==
    /\ \E l \in Layouts :
          ctor = [layout |-> l, made |-> [p \in Procs |-> NoCtor]]
    /\ bld = Idle /\ app = Idle /\ store = Idle /\ clock = 0 /\ xfmMtime = 0
    /\ epiShape = <<1, 1, 1>> /\ proc = Idle

\* lines 17-21 of Mapper.__init__; fnames['projcache'] has the fields
\* xfmname and projection only, so for one subject and transform the file
\* name is told by ptype
CacheFile(p, cls, call) ==
    /\ ctor.made[p].pc = "idle"
    /\ LET items == DictItems(call, ctor.layout)
       IN  ctor' = [ctor EXCEPT !.made[p] =
                       [pc |-> "done", cls |-> cls, kwargs |-> call,
                        items |-> items, cachefile |-> PType(cls, items)]]
    /\ UNCHANGED <<bld, app, store, clock, xfmMtime, epiShape, proc>>

NextKey == \E p \in Procs : \E cls \in Classes : \E call \in Calls :
              CacheFile(p, cls, call)

SpecKey == InitKey /\ [][NextKey]_vars

(***************************************************************************)
(* Properties of the built hemisphere operator.                            *)
(***************************************************************************)
Built(cls) == bld.phase = "built" /\ bld.cls = cls /\ bld.out.err = "none"

VertexIds == 0..(Len(bld.pts) - 1)

\* the rounded coordinate of vertex v lies inside the grid on all three axes
RoundsInside(v) ==
    \A a \in 1..3 : Round(bld.pts[v + 1][a]) \in 0..(bld.shape[4 - a] - 1)

\* (z * height + y) * width + x of the rounded coordinate of vertex v
LinearIndex(v) ==
    (Round(bld.pts[v + 1][3]) * bld.shape[2] + Round(bld.pts[v + 1][2])) * bld.shape[3]
        + Round(bld.pts[v + 1][1])

IsOne(w) == IsFinite(w) /\ w.e = 0 /\ w.n = w.d

RowFiniteSumOne(m, v) ==
    /\ \A k \in DOMAIN RowData(m, v) : IsFinite(RowData(m, v)[k])
    /\ RowData(m, v) # <<>>
    /\ IsOne(SumW(RowData(m, v)))

\* C9: in a Nearest operator the row of a vertex that the flat triangulation
\* references and whose coordinate rounds inside the grid holds exactly one
\* unit entry, at column (z*height + y)*width + x, a valid column; the row of
\* any other vertex is empty (no clipping onto a boundary voxel).
C9_NearestPlacement ==
    Built("nearest") =>
        \A v \in VertexIds :
            IF v \in Unique(bld.polys) /\ RoundsInside(v)
            THEN /\ RowIndices(bld.out.m, v) = <<LinearIndex(v)>>
                 /\ RowData(bld.out.m, v) = <<W(1, 1, 0)>>
                 /\ LinearIndex(v) \in 0..(ProdShape(bld.shape) - 1)
            ELSE RowIndices(bld.out.m, v) = <<>>

\* C9 witness: a built Nearest operator in which vertex 1 is referenced and
\* placed, and vertex 0 is referenced but rounds outside the grid.
C9_Witness ==
    /\ Built("nearest")
    /\ Unique(bld.polys) = {0, 1}
    /\ ~RoundsInside(0) /\ RoundsInside(1)
    /\ ProdShape(bld.shape) > 1

\* the vertices a strategy gives a row
NonExcluded(v) ==
    CASE bld.cls = "nearest"   -> v \in Unique(bld.polys) /\ RoundsInside(v)
      [] bld.cls = "trilinear" -> v \in Unique(bld.polys)
      [] OTHER                 -> TRUE

\* C10: for Nearest, Trilinear and Lanczos with renorm, every weight in a
\* non-excluded vertex's row is finite and the row sums to 1, on every grid
\* shape, clipped corners, taps cut by the grid edge and integer coordinates
\* included.
C10_RowsSumToOne ==
    (bld.phase = "built" /\ bld.out.err = "none" /\ bld.renorm) =>
        \A v \in VertexIds : NonExcluded(v) => RowFiniteSumOne(bld.out.m, v)
(***************************************************************************)
(* Properties of the application methods.                                  *)
(***************************************************************************)
Done(op) == app.phase = "done" /\ app.op = op

LeftRows == app.masks[1].shape[1]
RightRows == app.masks[2].shape[1]

\* positions lo .. hi-1 of the trailing axis, reordered by the permutation q
\* when an idxmap is set
Slice(lo, hi, q) ==
    LET plain == [k \in 1..(hi - lo) |-> lo + k - 1]
    IN  IF app.idxmap = <<>> THEN plain ELSE [k \in DOMAIN q |-> plain[q[k] + 1]]

\* C6: __call__ takes the per-vertex path exactly when the trailing dimension
\* of data equals nverts, and then returns the trailing axis split into a
\* left slice of left.rows and a right slice of right.rows positions, each
\* reordered by its own hemisphere's idxmap; data whose trailing dimension
\* differs from nverts is treated as volumetric.
C6_SplitOnTrailingDim ==
    Done("call") =>
        IF Trailing(app.arg) = app.nverts
        THEN /\ app.res.path = "split" /\ app.res.err = "none"
             /\ app.res.left = Slice(0, LeftRows, IF app.idxmap = <<>> THEN <<>> ELSE app.idxmap[1])
             /\ app.res.right = Slice(LeftRows, app.nverts, IF app.idxmap = <<>> THEN <<>> ELSE app.idxmap[2])
        ELSE app.res.path # "split"

\* an index array (one that does not have the per-vertex data length) with an
\* element past the vertices it indexes
OutOfRangeIndexInput ==
    \/ /\ app.arg.form = "flat" /\ Len(app.arg.a) # app.nverts
       /\ \E k \in DOMAIN app.arg.a : app.arg.a[k] >= app.nverts
    \/ /\ app.arg.form = "pair" /\ Len(app.arg.a) # LeftRows
       /\ \/ \E k \in DOMAIN app.arg.a : app.arg.a[k] >= LeftRows
          \/ \E k \in DOMAIN app.arg.b : app.arg.b[k] >= RightRows

\* C7: backwards raises ValueError for every out-of-range index input, flat
\* (an index >= nverts) or paired (a left index >= left.rows or a right index
\* >= right.rows); none is accepted and none fails with another error kind.
C7_OutOfRangeIsValueError ==
    (Done("backwards") /\ OutOfRangeIndexInput) => app.res.err = "ValueError"

\* voxel c is a column with a nonzero stored entry of matrix m
ColumnUsed(m, c) == \E k \in DOMAIN m.indices : m.indices[k] = c /\ NonZero(m.data[k])

HemiVolume(m) == [c \in 1..ProdShape(app.shape) |-> ColumnUsed(m, c - 1)]

\* C8: hemimasks yields one boolean grid volume per hemisphere, true where
\* the operator's column has a nonzero entry; mask is the elementwise OR of
\* the two, so every voxel with a nonzero entry in either operator is true in
\* mask, also when the entries of a column sum to zero.
C8_MaskConsistency ==
    /\ Done("hemimasks") =>
          /\ app.res.err = "none"
          /\ app.res.val = <<HemiVolume(app.masks[1]), HemiVolume(app.masks[2])>>
    /\ Done("mask") =>
          /\ app.res.err = "none"
          /\ \A c \in DOMAIN app.res.val :
                app.res.val[c] = (HemiVolume(app.masks[1])[c] \/ HemiVolume(app.masks[2])[c])


(***************************************************************************)
(* Properties of construction and of the cache store.  proc[p].seen holds  *)
(* what instance p found at its cache path when its __init__ tried it.     *)
(***************************************************************************)
Tried(p) == proc[p].pc # "idle"

\* C1: construction rebuilds (invokes the strategy's build) if and only if
\* recache is set, or the cache file is missing, or its mtime is strictly
\* older than the transform's; in every other case the operators are taken
\* from the cache file and no build is invoked.
C1_RebuildIffMiss ==
    \A p \in Procs : Tried(p) =>
        LET miss == \/ proc[p].recache
                    \/ proc[p].seen.state = "missing"
                    \/ proc[p].seen.stale
        IN  /\ proc[p].built <=> miss
            /\ ~miss => (proc[p].loaded /\ proc[p].pc = "done")

\* instance p was constructed without recache on a cache file that an earlier
\* construction of the same Mapper built and saved, the transform untouched
\* since
SecondConstruction(p) ==
    /\ Tried(p) /\ ~proc[p].recache
    /\ proc[p].seen.state = "complete"
    /\ proc[p].seen.src.saved
    /\ proc[p].seen.src.xfm = proc[p].seen.xfm

\* C2: constructing a Mapper again, without recache and with the transform
\* untouched, after a construction that built and saved it triggers no
\* rebuild; the two operators it loads have the compressed-row arrays and
\* shapes of the ones that were saved, and nverts is the same.
C2_SecondConstructionLoadsSaved ==
    \A p \in Procs : SecondConstruction(p) =>
        /\ ~proc[p].built /\ proc[p].loaded /\ proc[p].pc = "done"
        /\ proc[p].masks = proc[p].seen.src.masks
        /\ proc[p].nverts = proc[p].seen.src.nverts

\* C2 witness: a second construction that loaded operators with stored
\* entries in both hemispheres
C2_Witness ==
    \E p \in Procs :
        /\ SecondConstruction(p) /\ proc[p].loaded
        /\ proc[p].masks[1].data # <<>> /\ proc[p].masks[2].data # <<>>
        /\ proc[p].masks[1].shape # proc[p].masks[2].shape

\* loading the cache file that instance p found fails: it is missing, cut
\* short, or its stored shapes do not fit the grid of p
LoadFailure(p) ==
    \/ proc[p].seen.state \in {"missing", "empty", "partial"}
    \/ /\ proc[p].seen.state = "complete"
       /\ \E h \in 1..2 : proc[p].seen.cols[h] # ProdShape(proc[p].shape)

\* C3: every failure to load the cache artifact is recovered by rebuilding:
\* the constructor falls back to the strategy's build, never surfaces the load
\* failure, and never returns a Mapper whose operators disagree with the grid.
C3_LoadFailureRebuilds ==
    \A p \in Procs :
        /\ (Tried(p) /\ LoadFailure(p)) => (proc[p].built /\ proc[p].err # "BadZipfile")
        /\ proc[p].pc = "done" =>
              \A h \in 1..2 : proc[p].masks[h].shape[2] = ProdShape(proc[p].shape)

\* an instance is inside np.savez on cache key k
Saving(k) == \E p \in Procs : proc[p].pc \in {"write", "close"} /\ KeyOf(p) = k

\* C4: no constructor ever finds a partially written cache artifact at its
\* cache path, and no failed or interrupted save leaves one behind: a reader
\* sees the previous complete artifact, none, or the new complete artifact.
C4_AtomicPublish ==
    /\ \A p \in Procs : proc[p].seen.state \in {"none", "missing", "complete"}
    /\ \A k \in CacheKeys : ~Saving(k) => store[k].state \in {"missing", "complete"}

\* C5: requesting an unimplemented strategy always ends in the
\* not-implemented error and never in a usable Mapper, whatever the cache
\* store holds.
C5_UnimplementedAlwaysRaises ==
    \A p \in Procs :
        (Tried(p) /\ proc[p].cls \in {"gaussian", "gaussianthickness"}) =>
            (proc[p].pc = "failed" /\ proc[p].err = "NotImplementedError")

\* the (name, value) pairs a construction was given
Params(p) == {ctor.made[p].kwargs[i] : i \in DOMAIN ctor.made[p].kwargs}

SameStrategy(p, q) ==
    /\ ctor.made[p].pc = "done" /\ ctor.made[q].pc = "done"
    /\ ctor.made[p].cls = ctor.made[q].cls

\* C11: two constructions of the same strategy resolve to the same cache
\* file exactly when they were given the same set of keyword (name, value)
\* pairs: the order in which the keywords were written does not matter, and
\* different parameter sets give different files.
C11_KeyIsFunctionOfParameterSet ==
    \A p \in Procs : \A q \in Procs : SameStrategy(p, q) =>
        ((Params(p) = Params(q)) <=>
            (ctor.made[p].cachefile = ctor.made[q].cachefile))
====
